---- MODULE Spec2Model ----
(***************************************************************************)
(* Model of the use-with crate (src/src/lib.rs): the scope runners         *)
(* Use::use_with, Use::use_with_async and the using! macro, together with  *)
(* the ownership and drop rules of the language they rely on.              *)
(*                                                                         *)
(* A resource is an owned value.  Where it lives is tracked in loc; every  *)
(* run of its destructor increments drops.  The operation handed to a      *)
(* runner is caller code, so it is an input: a small program (a record)    *)
(* saying how many steps the body has, what it does with the resource it   *)
(* owns, whether and where it panics, and, for the asynchronous runner,    *)
(* whether the future it returns captures the resource and where that      *)
(* future suspends.                                                        *)
(***************************************************************************)
EXTENDS Integers, Sequences, FiniteSets, TLC

\* ------------------------------------------------------------------ bounds
MaxSteps == 2

\* ------------------------------------------------------------------ inputs
Res == {1, 2}

ResVals == {10, 11}

Adds == {0, 32}

NoValue == [kind |-> "none", v |-> 0]

PanicMsg == "Intentional panic"

\* What a closure can do with the value it owns: keep it in its parameter
\* until the closure's scope ends ("hold"), hand it back as its result
\* ("giveback"), or, at step `at`, drop it, move it into a place that
\* outlives the call ("store"), or std::mem::forget it.  A closure whose
\* last act is to drop the value is no different from one that holds it, so
\* a "drop" is always followed by at least one more step.
Disps == {"hold", "giveback", "drop", "store", "forget"}

MovingDisps == {"drop", "store", "forget"}

BaseOps ==
    { [n |-> n, disp |-> d, at |-> a, panicAt |-> p, add |-> 0, incrAt |-> 0,
       viaReturn |-> FALSE, capture |-> TRUE, susp |-> 0, callAfter |-> 0] :
        n \in 1..MaxSteps, d \in Disps, a \in 0..MaxSteps, p \in 0..MaxSteps }

WellFormed(o) ==
    /\ o.panicAt <= o.n
    /\ IF o.disp \in MovingDisps THEN o.at \in 1..o.n ELSE o.at = 0
    /\ o.disp = "drop" => o.at < o.n

\* Closures for use_with and bodies for using!  Step incrAt of the body
\* increments the counter captured from the enclosing scope (0: none does).
SyncOps ==
    { [o EXCEPT !.add = a, !.incrAt = i, !.viaReturn = vr] :
        o \in {b \in BaseOps : WellFormed(b)}, a \in Adds, i \in 0..MaxSteps,
        vr \in BOOLEAN }

SyncOpOk(o) == o.incrAt <= o.n

\* Closures for use_with_async: |res| async move { ... }.  The async block
\* captures res only if it mentions it; otherwise res stays a parameter of
\* the closure and the closure does nothing else with it.  The future
\* suspends after each of its first susp steps (after the last one too, as
\* a body that ends in sleep(..).await does).
AsyncOps ==
    { [o EXCEPT !.add = a, !.incrAt = i, !.capture = c, !.susp = s] :
        o \in {b \in BaseOps : WellFormed(b)}, a \in Adds, i \in 0..MaxSteps,
        c \in BOOLEAN, s \in 0..MaxSteps }

AsyncOpOk(o) ==
    /\ o.susp <= o.n
    /\ o.incrAt <= o.n
    /\ (~o.capture => o.disp = "hold")

\* The outer closure of a nested call: it calls the inner use_with once
\* callAfter of its own steps are done.
OuterOps ==
    { [o EXCEPT !.callAfter = c] :
        o \in {b \in BaseOps : WellFormed(b)}, c \in 0..MaxSteps }

OuterOpOk(o) == o.callAfter <= o.n

InnerOps == { o \in BaseOps : WellFormed(o) /\ o.n = 1 }

IdleOp == CHOOSE o \in BaseOps : o.n = 1 /\ o.disp = "hold" /\ o.at = 0 /\ o.panicAt = 0

\* The caller's program.  via[r] names the runner resource r is handed to.
\*   sync   : r1.use_with(op)
\*   using  : using!(r1, it -> body)
\*   async  : r1.use_with_async(op), then polled or dropped by the caller
\*   nested : r1.use_with(|o| { ...; r2.use_with(op2); ... })
\*   pair   : the same value and body once through use_with (r1) and once
\*            through using! (r2), each in its own copy of the enclosing scope
\* keep says what the outer closure of a nested call does with a resource
\* the inner call hands back to it: nothing, the call being a statement
\* ("stmt"), bind it to a local ("let"), or move it out of its scope ("out").
Keeps == {"stmt", "let", "out"}

Plans ==
    { [kind |-> "sync", via |-> <<"use_with", "unused">>, val |-> v, op |-> <<o, IdleOp>>,
       keep |-> "stmt"] :
        v \in ResVals, o \in {a \in SyncOps : SyncOpOk(a)} }
    \cup
    { [kind |-> "using", via |-> <<"using", "unused">>, val |-> v, op |-> <<o, IdleOp>>,
       keep |-> "stmt"] :
        v \in ResVals, o \in {a \in SyncOps : SyncOpOk(a)} }
    \cup
    { [kind |-> "async", via |-> <<"use_with_async", "unused">>, val |-> v, op |-> <<o, IdleOp>>,
       keep |-> "stmt"] :
        v \in ResVals, o \in {a \in AsyncOps : AsyncOpOk(a)} }
    \cup
    { p \in { [kind |-> "nested", via |-> <<"use_with", "use_with">>, val |-> 10,
               op |-> <<o, i>>, keep |-> k] :
                 o \in {a \in OuterOps : OuterOpOk(a)}, i \in InnerOps, k \in Keeps } :
        p.op[2].disp # "giveback" => p.keep = "stmt" }
    \cup
    { [kind |-> "pair", via |-> <<"use_with", "using">>, val |-> v, op |-> <<o, o>>,
       keep |-> "stmt"] :
        v \in ResVals, o \in {a \in SyncOps : SyncOpOk(a)} }

\* ------------------------------------------------------------------- state
VARIABLES
    plan,     \* the caller's program (fixed by Init)
    loc,      \* loc[r]: who owns resource r
    drops,    \* drops[r]: how often r's destructor has run
    phase,    \* phase[r]: where the invocation that takes r stands
    step,     \* step[r]: steps of the operation's body executed so far
    opval,    \* opval[r]: the value the operation's body has produced
    result,   \* result[r]: the value the runner handed to its caller
    observed, \* observed[r]: the failure the runner's caller observed
    ext,      \* ext[r]: the counter the operation captured from its scope
    invoked,  \* invoked[r]: how often the operation has been invoked
    polls,    \* polls[r]: how often the returned future has been polled
    clock,    \* sequence marker of the last event
    stepAt,   \* stepAt[r]: marker of the operation's last step (0: none)
    useAt,    \* useAt[r]: marker of the operation's last use of r (0: none)
    dropAt,   \* dropAt[r]: marker of r's destruction (0: none)
    opEnd,    \* opEnd[r]: marker of the end of the operation's body (0: none)
    retAt     \* retAt[r]: marker of the end of the invocation: the runner's return,
              \* the failure reaching its caller, or the drop of its future

vars == <<plan, loc, drops, phase, step, opval, result, observed, ext, invoked,
          polls, clock, stepAt, useAt, dropAt, opEnd, retAt>>

Op(r) == plan.op[r]

Via(r) == plan.via[r]

\* A resource that the operation still owns, in its parameter or in the
\* state of the future it returned.
HeldByOp(r) == loc[r] \in {"op", "opfut"}

Zero == [r \in Res |-> 0]

Init ==
    /\ plan \in Plans
    /\ loc = [r \in Res |->
                IF plan.via[r] = "unused" THEN "none"
                ELSE IF plan.kind = "nested" /\ r = 2 THEN "env"
                ELSE "caller"]
    /\ drops = Zero
    /\ phase = [r \in Res |-> "idle"]
    /\ step = Zero
    /\ opval = [r \in Res |-> NoValue]
    /\ result = [r \in Res |-> NoValue]
    /\ observed = [r \in Res |-> "none"]
    /\ ext = Zero
    /\ invoked = Zero
    /\ polls = Zero
    /\ clock = 0
    /\ stepAt = Zero
    /\ useAt = Zero
    /\ dropAt = Zero
    /\ opEnd = Zero
    /\ retAt = Zero

\* ------------------------------------------------------ language semantics
Has(seq, r) == \E i \in 1..Len(seq) : seq[i] = r

\* Running the destructors of the resources of seq, in that order, the
\* first one at marker t.
DestroySeq(seq, t) ==
    /\ drops' = [r \in Res |-> IF Has(seq, r) THEN drops[r] + 1 ELSE drops[r]]
    /\ dropAt' = [r \in Res |->
                    IF Has(seq, r)
                    THEN t + (CHOOSE i \in 1..Len(seq) : seq[i] = r) - 1
                    ELSE dropAt[r]]

\* The end of the scope that owns the operation's parameter (the closure's
\* frame, the using! block, the state of the async block) on normal
\* completion: a value handed back as the result moves out, anything the
\* operation still owns is dropped.
MovedOut(r) == HeldByOp(r) /\ Op(r).disp = "giveback"

\* The locals of the operation r: the resource the inner call handed back
\* to the outer closure, which bound it with let.
Locals(r) ==
    IF plan.kind = "nested" /\ r = 1 /\ loc[2] = "kept" THEN <<2>> ELSE <<>>

\* What the closure captured and has not yet passed on: the inner resource
\* of a nested call before the inner call is made.
Captured(r) ==
    IF plan.kind = "nested" /\ r = 1 /\ loc[2] = "env" THEN <<2>> ELSE <<>>

\* Locals go first, then the parameter.
DroppedAtExit(r) ==
    Locals(r) \o (IF HeldByOp(r) /\ ~MovedOut(r) THEN <<r>> ELSE <<>>)

\* Unwinding out of the operation r: locals, then the parameter, then what
\* the closure captured.
DroppedByUnwind(r) ==
    Locals(r) \o (IF HeldByOp(r) THEN <<r>> ELSE <<>>) \o Captured(r)

\* Where a resource handed back as the result is once the runner has
\* returned: with the runner's caller, which for the inner call of a nested
\* plan is the outer closure.
ResultPlace(r) ==
    IF plan.kind = "nested" /\ r = 2
    THEN (IF plan.keep = "stmt" THEN "temp"
          ELSE IF plan.keep = "let" THEN "kept"
          ELSE "result")
    ELSE "result"

LocAfterExit(r) ==
    [q \in Res |->
        IF Has(DroppedAtExit(r), q) THEN "dropped"
        ELSE IF q = r /\ MovedOut(r) THEN ResultPlace(r)
        ELSE loc[q]]

LocAfterUnwind(r) ==
    [q \in Res |-> IF Has(DroppedByUnwind(r), q) THEN "dropped" ELSE loc[q]]

\* ------------------------------------------------------------ the operation
\* The value of the operation's body: the resource itself when it hands it
\* back, else a function of the resource's value (it.0 + 32).
OpValue(r) ==
    IF Op(r).disp = "giveback"
    THEN [kind |-> "res", v |-> plan.val]
    ELSE [kind |-> "val", v |-> plan.val + Op(r).add]

\* The outer closure of a nested call stands at the inner call until the
\* inner runner has returned and the statement that made the call is over.
Blocked(r) ==
    /\ plan.kind = "nested"
    /\ r = 1
    /\ step[1] = Op(1).callAfter
    /\ (phase[2] # "returned" \/ loc[2] = "temp")

\* The inner call of a nested plan was a statement: the resource it handed
\* back is a temporary, dropped where the statement ends.
EndCallStatement ==
    /\ plan.kind = "nested"
    /\ phase[2] = "returned"
    /\ loc[2] = "temp"
    /\ DestroySeq(<<2>>, clock + 1)
    /\ loc' = [loc EXCEPT ![2] = "dropped"]
    /\ clock' = clock + 1
    /\ UNCHANGED <<plan, phase, step, opval, result, observed, ext, invoked, polls,
                   stepAt, useAt, opEnd, retAt>>

\* One step of the operation's body.
OpStep(r) ==
    LET o == Op(r)
        k == step[r] + 1
        t == clock + 1
        moves == HeldByOp(r) /\ o.disp \in MovingDisps /\ o.at = k
    IN  /\ phase[r] = "running"
        /\ k <= o.n
        /\ k # o.panicAt
        /\ ~Blocked(r)
        /\ step' = [step EXCEPT ![r] = k]
        /\ clock' = t
        /\ IF moves /\ o.disp = "drop"
           THEN DestroySeq(<<r>>, t)
           ELSE UNCHANGED <<drops, dropAt>>
        /\ loc' = [loc EXCEPT ![r] =
                      IF ~moves THEN @
                      ELSE IF o.disp = "drop" THEN "dropped"
                      ELSE IF o.disp = "store" THEN "stored"
                      ELSE "forgotten"]
        /\ stepAt' = [stepAt EXCEPT ![r] = t]
        /\ useAt' = [useAt EXCEPT ![r] = IF HeldByOp(r) /\ ~moves THEN t ELSE @]
        /\ ext' = [ext EXCEPT ![r] = IF k = o.incrAt THEN @ + 1 ELSE @]
        /\ phase' = [phase EXCEPT ![r] =
                      IF Via(r) = "use_with_async" /\ k <= o.susp
                      THEN "suspended" ELSE @]
        /\ UNCHANGED <<plan, opval, result, observed, invoked, polls, opEnd, retAt>>

\* The operation panics instead of taking its next step.  The stack unwinds:
\* what the operation owns is dropped, then the failure reaches the caller
\* of the runner, which catches nothing on the way.
OpPanic(r) ==
    LET o == Op(r)
        t == clock + 1
    IN  /\ phase[r] = "running"
        /\ step[r] + 1 = o.panicAt
        /\ ~Blocked(r)
        /\ opEnd' = [opEnd EXCEPT ![r] = t]
        /\ DestroySeq(DroppedByUnwind(r), t + 1)
        /\ loc' = LocAfterUnwind(r)
        /\ phase' = [phase EXCEPT ![r] = "panicked"]
        /\ observed' = [observed EXCEPT ![r] = PanicMsg]
        /\ retAt' = [retAt EXCEPT ![r] = t + 3]
        /\ clock' = t + 3
        /\ UNCHANGED <<plan, step, opval, result, ext, invoked, polls, stepAt, useAt>>

\* The failure of the inner runner reaches the outer closure, which does
\* not catch it either: the outer operation ends by the same failure.
Propagate ==
    LET t == clock + 1
    IN  /\ plan.kind = "nested"
        /\ phase[1] = "running"
        /\ phase[2] = "panicked"
        /\ opEnd' = [opEnd EXCEPT ![1] = t]
        /\ DestroySeq(DroppedByUnwind(1), t + 1)
        /\ loc' = LocAfterUnwind(1)
        /\ phase' = [phase EXCEPT ![1] = "panicked"]
        /\ observed' = [observed EXCEPT ![1] = observed[2]]
        /\ retAt' = [retAt EXCEPT ![1] = t + 3]
        /\ clock' = t + 3
        /\ UNCHANGED <<plan, step, opval, result, ext, invoked, polls, stepAt, useAt>>

\* ------------------------------------------------------------- use_with
\* Where the caller's program makes the call that takes r.
CanCall(r) ==
    /\ phase[r] = "idle"
    /\ plan.kind = "nested" /\ r = 2 =>
          phase[1] = "running" /\ step[1] = Op(1).callAfter

\* A runner that drops self and returns without ever calling f.
Call_use_with_skipping_f(r) ==
    /\ Via(r) = "use_with"
    /\ CanCall(r)
    /\ DestroySeq(<<r>>, clock + 1)
    /\ loc' = [loc EXCEPT ![r] = "dropped"]
    /\ phase' = [phase EXCEPT ![r] = "returned"]
    /\ retAt' = [retAt EXCEPT ![r] = clock + 2]
    /\ clock' = clock + 2
    /\ UNCHANGED <<plan, step, opval, result, observed, ext, invoked, polls,
                   stepAt, useAt, opEnd>>

\* f(self): self moves into the closure's parameter and the closure runs.
Call_use_with(r) ==
    /\ Via(r) = "use_with"
    /\ CanCall(r)
    /\ loc' = [loc EXCEPT ![r] = "op"]
    /\ phase' = [phase EXCEPT ![r] = "running"]
    /\ invoked' = [invoked EXCEPT ![r] = @ + 1]
    /\ clock' = clock + 1
    /\ UNCHANGED <<plan, drops, step, opval, result, observed, ext, polls,
                   stepAt, useAt, dropAt, opEnd, retAt>>

\* A runner that calls f(self) and discards what it returns.
RunnerOutputDiscarded(r) == NoValue

\* What use_with returns: the value of f(self).
RunnerOutput(r) == opval'[r]

\* The closure's body is done: its scope ends, and use_with returns.
Return_use_with(r) ==
    /\ Via(r) = "use_with"
    /\ phase[r] = "running"
    /\ step[r] = Op(r).n
    /\ ~Blocked(r)
    /\ opEnd' = [opEnd EXCEPT ![r] = clock + 1]
    /\ opval' = [opval EXCEPT ![r] = OpValue(r)]
    /\ DestroySeq(DroppedAtExit(r), clock + 2)
    /\ loc' = LocAfterExit(r)
    /\ result' = [result EXCEPT ![r] = RunnerOutput(r)]
    /\ phase' = [phase EXCEPT ![r] = "returned"]
    /\ retAt' = [retAt EXCEPT ![r] = clock + 4]
    /\ clock' = clock + 4
    /\ UNCHANGED <<plan, step, observed, ext, invoked, polls, stepAt, useAt>>

\* --------------------------------------------------------------- using!
\* let $param = $resource;
Call_using(r) ==
    /\ Via(r) = "using"
    /\ CanCall(r)
    /\ loc' = [loc EXCEPT ![r] = "op"]
    /\ phase' = [phase EXCEPT ![r] = "running"]
    /\ invoked' = [invoked EXCEPT ![r] = @ + 1]
    /\ clock' = clock + 1
    /\ UNCHANGED <<plan, drops, step, opval, result, observed, ext, polls,
                   stepAt, useAt, dropAt, opEnd, retAt>>

\* What the using! expression yields to the code around it: the value of
\* $body, unless $body left by `return`, which leaves the enclosing function.
UsingOutput(r) == IF Op(r).viaReturn THEN NoValue ELSE opval'[r]

\* $body is done: the block that binds $param ends.
End_using(r) ==
    /\ Via(r) = "using"
    /\ phase[r] = "running"
    /\ step[r] = Op(r).n
    /\ opEnd' = [opEnd EXCEPT ![r] = clock + 1]
    /\ opval' = [opval EXCEPT ![r] = OpValue(r)]
    /\ DestroySeq(DroppedAtExit(r), clock + 2)
    /\ loc' = LocAfterExit(r)
    /\ result' = [result EXCEPT ![r] = UsingOutput(r)]
    /\ phase' = [phase EXCEPT ![r] = IF Op(r).viaReturn THEN "exited" ELSE "returned"]
    /\ retAt' = [retAt EXCEPT ![r] = clock + 4]
    /\ clock' = clock + 4
    /\ UNCHANGED <<plan, step, observed, ext, invoked, polls, stepAt, useAt>>

\* ------------------------------------------------------- use_with_async
\* A runner that evaluates f(self) at the call and returns only the
\* operation's future: { let fut = f(self); async { fut.await } }.
Call_use_with_async_eager(r) ==
    /\ Via(r) = "use_with_async"
    /\ CanCall(r)
    /\ invoked' = [invoked EXCEPT ![r] = @ + 1]
    /\ loc' = [loc EXCEPT ![r] = IF Op(r).capture THEN "opfut" ELSE "dropped"]
    /\ IF Op(r).capture
       THEN UNCHANGED <<drops, dropAt>>
       ELSE DestroySeq(<<r>>, clock + 1)
    /\ phase' = [phase EXCEPT ![r] = "suspended"]
    /\ clock' = clock + 1
    /\ UNCHANGED <<plan, step, opval, result, observed, ext, polls, stepAt,
                   useAt, opEnd, retAt>>

\* async { f(self).await }: the async block captures f and self; nothing
\* runs until the future is polled.
Call_use_with_async(r) ==
    /\ Via(r) = "use_with_async"
    /\ CanCall(r)
    /\ loc' = [loc EXCEPT ![r] = "future"]
    /\ phase' = [phase EXCEPT ![r] = "created"]
    /\ clock' = clock + 1
    /\ UNCHANGED <<plan, drops, step, opval, result, observed, ext, invoked,
                   polls, stepAt, useAt, dropAt, opEnd, retAt>>

\* Where self is once f(self) has returned the operation's future: in that
\* future if its async block captured the parameter, else dropped with the
\* closure's frame.
AfterInvoke(r) == IF Op(r).capture THEN "opfut" ELSE "dropped"

\* The caller (an executor, an .await) polls the future.  The first poll
\* evaluates f(self) and starts awaiting its future; a later poll resumes it.
Poll(r) ==
    LET first == phase[r] = "created"
        t == clock + 1
    IN  /\ Via(r) = "use_with_async"
        /\ phase[r] \in {"created", "suspended"}
        /\ polls' = [polls EXCEPT ![r] = @ + 1]
        /\ invoked' = [invoked EXCEPT ![r] = IF first THEN @ + 1 ELSE @]
        /\ loc' = [loc EXCEPT ![r] = IF first THEN AfterInvoke(r) ELSE @]
        /\ IF first /\ AfterInvoke(r) = "dropped"
           THEN DestroySeq(<<r>>, t)
           ELSE UNCHANGED <<drops, dropAt>>
        /\ phase' = [phase EXCEPT ![r] = "running"]
        /\ clock' = t
        /\ UNCHANGED <<plan, step, opval, result, observed, ext, stepAt, useAt, opEnd, retAt>>

\* What the returned future resolves to: the output of f(self).await.
AwaitOutput(r) == opval'[r]

\* The operation's future is done: its state is dropped and the returned
\* future resolves.
Ready_async(r) ==
    /\ Via(r) = "use_with_async"
    /\ phase[r] = "running"
    /\ step[r] = Op(r).n
    /\ opEnd' = [opEnd EXCEPT ![r] = clock + 1]
    /\ opval' = [opval EXCEPT ![r] = OpValue(r)]
    /\ DestroySeq(DroppedAtExit(r), clock + 2)
    /\ loc' = LocAfterExit(r)
    /\ result' = [result EXCEPT ![r] = AwaitOutput(r)]
    /\ phase' = [phase EXCEPT ![r] = "returned"]
    /\ retAt' = [retAt EXCEPT ![r] = clock + 4]
    /\ clock' = clock + 4
    /\ UNCHANGED <<plan, step, observed, ext, invoked, polls, stepAt, useAt>>

\* What dropping the returned future drops: self if the future was never
\* polled, else whatever the operation's future holds.
DroppedByCancel(r) == IF loc[r] \in {"future", "opfut"} THEN <<r>> ELSE <<>>

\* The caller drops the future before it has resolved.
Cancel(r) ==
    /\ Via(r) = "use_with_async"
    /\ phase[r] \in {"created", "suspended"}
    /\ DestroySeq(DroppedByCancel(r), clock + 1)
    /\ loc' = [loc EXCEPT ![r] = IF Has(DroppedByCancel(r), r) THEN "dropped" ELSE @]
    /\ phase' = [phase EXCEPT ![r] = "cancelled"]
    /\ retAt' = [retAt EXCEPT ![r] = clock + 2]
    /\ clock' = clock + 2
    /\ UNCHANGED <<plan, step, opval, result, observed, ext, invoked, polls,
                   stepAt, useAt, opEnd>>

\* ------------------------------------------------------------ the system
Next ==
    \/ \E r \in Res : Call_use_with(r)
    \/ \E r \in Res : Return_use_with(r)
    \/ \E r \in Res : Call_using(r)
    \/ \E r \in Res : End_using(r)
    \/ \E r \in Res : Call_use_with_async(r)
    \/ \E r \in Res : Poll(r)
    \/ \E r \in Res : Ready_async(r)
    \/ \E r \in Res : Cancel(r)
    \/ \E r \in Res : OpStep(r)
    \/ \E r \in Res : OpPanic(r)
    \/ Propagate
    \/ EndCallStatement

Spec == Init /\ [][Next]_vars

\* ---------------------------------------------------------------- claims
Finished(r) == phase[r] \in {"returned", "panicked"}

Runner(r) == Via(r) \in {"use_with", "use_with_async"}

\* C1: once an invocation of use_with, or of use_with_async driven to
\* completion, has finished (by return or by failure), the resource's
\* destruction counter reads exactly 1, whatever the operation was.
C1_ExactlyOnceDestruction ==
    \A r \in Res : Runner(r) /\ Finished(r) => drops[r] = 1

\* C2: in every run of use_with the resource is destroyed strictly after
\* the operation has completed, never before or during it, and after its
\* last use.
C2_DestroyedAfterOperation ==
    \A r \in Res :
        Via(r) = "use_with" /\ invoked[r] > 0 /\ dropAt[r] # 0 =>
            /\ opEnd[r] # 0
            /\ dropAt[r] > opEnd[r]
            /\ dropAt[r] > stepAt[r]
            /\ dropAt[r] > useAt[r]

\* C3: the resource handed to use_with_async is never destroyed while the
\* returned future is pending, only once the operation's future is through
\* its last suspension point and has completed.
C3_NotDestroyedWhilePending ==
    \A r \in Res :
        Via(r) = "use_with_async" /\ phase[r] # "cancelled" =>
            /\ phase[r] \in {"created", "suspended"} => drops[r] = 0
            /\ dropAt[r] # 0 => opEnd[r] # 0 /\ dropAt[r] > opEnd[r]

\* C4: when the operation passed to use_with panics, the resource is
\* destroyed exactly once, before the failure reaches the caller, and the
\* caller observes the very failure the operation raised and no value.
C4_PanicSafety ==
    \A r \in Res :
        Via(r) = "use_with" /\ phase[r] = "panicked" =>
            /\ drops[r] = 1
            /\ dropAt[r] < retAt[r]
            /\ observed[r] = PanicMsg
            /\ result[r] = NoValue

\* C5: use_with returns, and the future of use_with_async resolves to,
\* exactly the value the operation produced: the resource's value plus the
\* operation's addend (10 and +32 give 42), or the resource handed back.
C5_ResultPassThrough ==
    \A r \in Res :
        Runner(r) /\ phase[r] = "returned" =>
            /\ Op(r).disp # "giveback" =>
                  result[r] = [kind |-> "val", v |-> plan.val + Op(r).add]
            /\ Op(r).disp = "giveback" =>
                  result[r] = [kind |-> "res", v |-> plan.val]
            /\ plan.val = 10 /\ Op(r).add = 32 /\ Op(r).disp # "giveback" =>
                  result[r].v = 42

C5_Witness ==
    /\ plan.kind = "async"
    /\ phase[1] = "returned"
    /\ polls[1] >= 2
    /\ plan.val = 10
    /\ result[1] = [kind |-> "val", v |-> 42]

\* C6: a future of use_with_async that is dropped before it completes has
\* destroyed the resource exactly once, and no step of the operation runs
\* after the drop.
C6_CancellationRelease ==
    \A r \in Res :
        Via(r) = "use_with_async" /\ phase[r] = "cancelled" =>
            /\ drops[r] = 1
            /\ stepAt[r] < retAt[r]
            /\ dropAt[r] <= retAt[r]

\* C7: in nested use_with calls each of the two resources is destroyed
\* exactly once, the inner one no later than the inner call's return and
\* before the outer one.
C7_NestingIndependence ==
    plan.kind = "nested" /\ invoked[2] > 0 =>
        /\ Finished(2) => drops[2] = 1 /\ dropAt[2] <= retAt[2]
        /\ Finished(1) => drops[1] = 1 /\ drops[2] = 1 /\ dropAt[2] < dropAt[1]

\* C8: using!(resource, name -> body) behaves as use_with(resource, |name|
\* body): the same outcome and value reach the surrounding code, the
\* resource is destroyed exactly once, after the body's value is computed
\* and before the expression hands over its value.
C8_UsingEquivalence ==
    plan.kind = "pair" /\ phase[1] \notin {"idle", "running"}
                       /\ phase[2] \notin {"idle", "running"} =>
        /\ phase[2] = phase[1]
        /\ result[2] = result[1]
        /\ observed[2] = observed[1]
        /\ drops[2] = 1
        /\ dropAt[2] > opEnd[2]
        /\ dropAt[2] < retAt[2]

\* C9: what the operation does to the counter it captured is there when
\* use_with has returned or the future of use_with_async has resolved,
\* applied exactly once, and the counter changes in no other way.
C9_ExternalMutationVisible ==
    \A r \in Res :
        Runner(r) =>
            /\ phase[r] = "returned" =>
                  /\ ext[r] = (IF Op(r).incrAt # 0 THEN 1 ELSE 0)
                  /\ invoked[r] = 1
            /\ ext[r] \in {0, 1}
            /\ ext[r] = 1 => Op(r).incrAt # 0 /\ step[r] >= Op(r).incrAt

C9_Witness ==
    /\ plan.kind = "sync"
    /\ phase[1] = "returned"
    /\ Op(1).incrAt # 0
    /\ ext[1] = 1

\* C10: calling use_with_async neither invokes the operation nor destroys
\* the resource; the operation is invoked once, by the first poll, and not
\* again by later polls; a future dropped unpolled destroys the resource
\* once without the operation ever being invoked.
C10_LazyStart ==
    \A r \in Res :
        Via(r) = "use_with_async" =>
            /\ phase[r] = "created" =>
                  invoked[r] = 0 /\ drops[r] = 0 /\ loc[r] = "future" /\ step[r] = 0
            /\ polls[r] = 0 => invoked[r] = 0 /\ step[r] = 0
            /\ polls[r] >= 1 => invoked[r] = 1
            /\ phase[r] = "cancelled" /\ polls[r] = 0 =>
                  drops[r] = 1 /\ invoked[r] = 0 /\ ext[r] = 0

C10_Witness ==
    /\ plan.kind = "async"
    /\ phase[1] = "cancelled"
    /\ polls[1] = 0
    /\ drops[1] = 1
    /\ invoked[1] = 0

====
